---- MODULE Spec2Model ----
(***************************************************************************)
(* dp::periodic_function (include/periodic_function/periodic_function.hpp) *)
(* as a state machine: engines with their members (interval_, callback_,   *)
(* stop_, runner_, stop_condition_), the scheduler loop    *)
(* each start_internal() spawns, and the caller threads that run start(),  *)
(* stop(), the destructor, the move constructor and move assignment one    *)
(* statement at a time.                                                    *)
(*                                                                         *)
(* Time: `now` is std::chrono::steady_clock in ticks, TicksPerMs ticks to  *)
(* the millisecond, so that duration_cast<milliseconds> truncates.  The    *)
(* statements of a loop take no time: the clock advances only when every   *)
(* live loop is suspended in wait_until before its fire time or is inside  *)
(* the action.  Caller threads may be arbitrarily slow.                    *)
(*                                                                         *)
(* stop_cv_mutex_: every critical section of the class is one action (the  *)
(* mutex is never held across two of them), so the mutex needs no variable *)
(* of its own; statements outside a critical section are actions of their  *)
(* own and interleave freely.                                              *)
(***************************************************************************)
EXTENDS Integers, Sequences, FiniteSets, TLC

\* ---------------------------------------------------------------- bounds
MaxTime == 4
MaxInterval == 2
MaxDuration == 3
MaxSpawn == 3
\* the clock's horizon where two engines and relocation are explored
MoveMaxTime == 1
\* steady_clock ticks per millisecond (scaled down from the real ratio)
TicksPerMs == 3
\* the most invocations of the action followed in one loop
MaxInvocations == 6
\* the clock's horizon where the cadence of long intervals is explored
CadenceMaxTime == 8
\* the clock's horizon where two caller threads are explored
RaceMaxTime == 1
\* the arguments the missed interval policy is applied to on its own
MaxElapsed == 12
MaxPolicyInterval == 5

Engine == {1, 2}
Caller == {1, 2}
Tid == 1..MaxSpawn
Intervals == 1..MaxInterval
Durations == 0..MaxDuration
\* intervals longer than a millisecond
LongIntervals == (TicksPerMs + 1)..(TicksPerMs + 2)
Policies == {"schedule_next", "invoke_immediately"}

VARIABLES
  now,             \* steady_clock::now()
  state,           \* engine lifetime: "none" | "live" | "dead"
  interval_,       \* time_type interval_
  callback_,       \* Callback callback_: [action, valid]
  stop_,           \* std::atomic_bool stop_
  runner_,         \* std::thread runner_: 0 (not joinable) or the thread it names
  thr,             \* the threads spawned by start_internal, with the loop's locals
  stack,           \* each caller thread's call stack, top frame first
  stopped,         \* history: stop() on the engine has returned since its last spawn
  moveDone,        \* history: the move that has just completed
  dur,             \* the action's duration (the action sleeps for dur ticks)
  throws,          \* the action raises a failure each time it is invoked
  policy,          \* the MissedIntervalPolicy template argument
  horizon,         \* the time up to which the clock is followed
  sched            \* a call of MissedIntervalPolicy::schedule on its own

vars == <<now, state, interval_, callback_, stop_, runner_,
          thr, stack, stopped, moveDone, dur, throws, policy, horizon, sched>>

engineVars == <<state, interval_, callback_, stop_, runner_>>
configVars == <<dur, throws, policy, horizon, sched>>

\* ------------------------------------------------------------- policies

\* (mutant) an overrun skips to the next multiple of the interval
schedule_next_aligned(callback_time, interval) ==
  IF callback_time >= interval
    THEN (callback_time \div interval + 1) * interval
    ELSE interval - callback_time

\* (mutant) a callback that took exactly the interval counts as on time
schedule_next_strict(callback_time, interval) ==
  IF callback_time > interval
    THEN LET append_time == callback_time % interval
         IN  IF append_time = 0 THEN interval ELSE append_time
    ELSE interval - callback_time

schedule_next_missed_interval_policy(callback_time, interval) ==
  IF callback_time >= interval
    THEN LET append_time == callback_time % interval
         IN  IF append_time = 0 THEN interval ELSE append_time
    ELSE interval - callback_time

invoke_immediately_missed_interval_policy(callback_time, interval) == 0

MissedIntervalPolicy(callback_time, interval) ==
  IF policy = "schedule_next"
    THEN schedule_next_missed_interval_policy(callback_time, interval)
    ELSE invoke_immediately_missed_interval_policy(callback_time, interval)

\* std::chrono::duration_cast<std::chrono::milliseconds>, converted back to
\* time_type: truncation to whole milliseconds
DurationCastMs(d) == (d \div TicksPerMs) * TicksPerMs

\* --------------------------------------------------------------- values

NoCallback == [action |-> 0, valid |-> FALSE]

NoThread == [pc |-> "unborn", this |-> 0, thread_start |-> 0, future_time |-> 0,
             callback_start |-> 0, acting |-> 0, woken |-> FALSE, ninv |-> 0,
             spawned_at |-> 0, restart |-> FALSE, doomed |-> FALSE, early |-> FALSE,
             passed |-> FALSE]

NoMove == [dst |-> 0, src |-> 0, was |-> FALSE]

NoSchedule == [callback_time |-> 0, interval |-> 0, append_time |-> 0, done |-> FALSE]

Frame(p, e, o, w) == [pc |-> p, this |-> e, other |-> o, was |-> w]

Live(t) == thr[t].pc \notin {"unborn", "exited", "terminated"}

LiveLoops(e) == {t \in Tid : thr[t].this = e /\ Live(t)}

Unborn == {t \in Tid : thr[t].pc = "unborn"}

\* (mutant) is_running() that never sees the thread
is_runningNever(e) == FALSE

\* bool is_running() const { return runner_.joinable(); }
is_running(e) == runner_[e] # 0

Top(c) == Head(stack[c])
At(c, p) == stack[c] # <<>> /\ Top(c).pc = p
Goto(c, p) == [stack EXCEPT ![c] = <<[Top(c) EXCEPT !.pc = p]>> \o Tail(stack[c])]
Pop(c) == [stack EXCEPT ![c] = Tail(stack[c])]

\* ----------------------------------------------------------------- Init

InitBase(I, D, T, h, P) ==
  /\ now = 0
  /\ horizon = h
  /\ dur \in D
  /\ throws \in T
  /\ policy \in P
  /\ state = [e \in Engine |-> IF e = 1 THEN "live" ELSE "none"]
  /\ \E i \in I : interval_ = [e \in Engine |-> IF e = 1 THEN i ELSE 0]
  /\ callback_ = [e \in Engine |->
                    IF e = 1 THEN [action |-> 1, valid |-> TRUE] ELSE NoCallback]
  /\ stop_ = [e \in Engine |-> FALSE]
  /\ runner_ = [e \in Engine |-> 0]
  /\ thr = [t \in Tid |-> NoThread]
  /\ stack = [c \in Caller |-> <<>>]
  /\ stopped = [e \in Engine |-> FALSE]
  /\ moveDone = NoMove

\* the default template argument: schedule_next_missed_interval_policy
InitWith(I, D, T, h) ==
  /\ InitBase(I, D, T, h, {"schedule_next"})
  /\ sched = NoSchedule

Init == InitWith(Intervals, Durations, BOOLEAN, MaxTime)

\* relocation: the action returns at once and never throws
InitMove == InitWith(Intervals, {0}, {FALSE}, MoveMaxTime)

\* ------------------------------------------------------- scheduler loop
\* The lambda of start_internal, run by thread t on the engine it captured.

SetThr(t, r) == [thr EXCEPT ![t] = r]

\* the loop's locals die with the thread
Exited(r, p) == [NoThread EXCEPT !.pc = p, !.this = r.this]

\* thread_start = now(); future_time = thread_start + interval_
LoopBegin(t) ==
  /\ thr[t].pc = "begin"
  /\ thr' = SetThr(t, [thr[t] EXCEPT !.pc = "wait",
                                     !.thread_start = now,
                                     !.future_time = now + interval_[thr[t].this]])
  /\ UNCHANGED <<now, engineVars, stack, stopped, moveDone, configVars>>

\* (mutant) the wait never looks at stop_
AfterWaitNoStop(r, stop) ==
  IF now >= r.future_time
    THEN [r EXCEPT !.pc = "invoke", !.woken = FALSE]
    ELSE [r EXCEPT !.pc = "blocked", !.woken = FALSE]

\* (mutant) a wait that timed out is not followed by `if (stop_) break;`
AfterWaitTimeoutFirst(r, stop) ==
  IF now >= r.future_time
    THEN [r EXCEPT !.pc = "invoke", !.woken = FALSE]
    ELSE IF stop
      THEN Exited(r, "exited")
      ELSE [r EXCEPT !.pc = "blocked", !.woken = FALSE]

\* With stop_cv_mutex_ held: wait_until's predicate and time-out test, then
\* `if (stop_) break;`.  stop_ true: the loop leaves.  Timed out with stop_
\* false: the scope ends and the callback is next.  Otherwise the thread
\* releases the mutex and suspends on stop_condition_.
AfterWait(r, stop) ==
  IF stop
    THEN Exited(r, "exited")
    ELSE IF now >= r.future_time
      THEN [r EXCEPT !.pc = "invoke", !.woken = FALSE]
      ELSE [r EXCEPT !.pc = "blocked", !.woken = FALSE]

\* lock(stop_cv_mutex_); stop_condition_.wait_until(lock, future_time, pred):
\* the first evaluation, on entering the wait
LoopPred(t) ==
  /\ thr[t].pc = "wait"
  /\ thr' = SetThr(t, AfterWait(thr[t], stop_[thr[t].this]))
  /\ UNCHANGED <<now, engineVars, stack, stopped, moveDone, configVars>>

\* wait_until returns from the suspension (notified, or future_time reached),
\* takes the mutex again and evaluates again.  (A wake-up for no reason
\* evaluates the same and suspends again: it changes nothing.)
LoopWake(t) ==
  /\ thr[t].pc = "blocked"
  /\ thr[t].woken \/ now >= thr[t].future_time
  /\ thr' = SetThr(t, AfterWait(thr[t], stop_[thr[t].this]))
  /\ UNCHANGED <<now, engineVars, stack, stopped, moveDone, configVars>>

\* What callback_() runs.  A callback that holds its action runs it.  A
\* moved-from callback is in an unspecified state: it may still run the
\* action (a lambda, a bind object) or run nothing and throw (an emptied
\* std::function); 0 stands for the latter.
Invocable(cb) == IF cb.valid THEN {cb.action} ELSE {cb.action, 0}

\* callback_start = now(); callback_();
LoopInvoke(t) ==
  /\ thr[t].pc = "invoke"
  /\ thr[t].ninv < MaxInvocations
  /\ \E a \in Invocable(callback_[thr[t].this]) :
       thr' = SetThr(t, [thr[t] EXCEPT !.pc = "incall",
                                       !.callback_start = now,
                                       !.acting = a,
                                       !.passed = FALSE,
                                       !.ninv = @ + (IF a = 0 THEN 0 ELSE 1)])
  /\ UNCHANGED <<now, engineVars, stack, stopped, moveDone, configVars>>

\* the time the invocation in flight takes
ActDur(t) == IF thr[t].acting = 0 THEN 0 ELSE dur

Thrown(t) == thr[t].acting = 0 \/ throws

\* (mutant) no catch: a failure of the action leaves the thread function
AfterCallbackPropagate(thrown) == IF thrown THEN "terminated" ELSE "wait"

\* try { callback_(); } catch (...) { }: whatever the callback raised is
\* swallowed and the loop goes on
AfterCallback(thrown) == "wait"

\* (mutant) the next fire time counted from the moment the callback returned
NextFireFromNow(future_time, callback_end, append_time) == callback_end + append_time

\* future_time += append_time
NextFire(future_time, callback_end, append_time) == future_time + append_time

\* the callback returns or throws; callback_end = now(); the missed interval
\* policy gives append_time; future_time += append_time
LoopReturn(t) ==
  LET e == thr[t].this
      callback_duration == DurationCastMs(now - thr[t].callback_start)
      append_time == MissedIntervalPolicy(callback_duration, interval_[e])
      next == AfterCallback(Thrown(t))
  IN
  /\ thr[t].pc = "incall"
  /\ now = thr[t].callback_start + ActDur(t)
  /\ thr' = SetThr(t, IF next = "wait"
                        THEN [thr[t] EXCEPT !.pc = "wait", !.acting = 0,
                                            !.callback_start = 0,
                                            !.future_time = NextFire(@, now, append_time)]
                        ELSE Exited(thr[t], next))
  /\ UNCHANGED <<now, engineVars, stack, stopped, moveDone, configVars>>

LoopStep(t) ==
  \/ LoopBegin(t)
  \/ LoopPred(t)
  \/ LoopWake(t)
  \/ LoopInvoke(t)
  \/ LoopReturn(t)

\* ---------------------------------------------------------------- clock

\* a loop that has nothing to do before time passes
Suspended(t) ==
  \/ ~Live(t)
  \/ thr[t].pc = "blocked" /\ ~thr[t].woken /\ now < thr[t].future_time
  \/ thr[t].pc = "incall" /\ now < thr[t].callback_start + ActDur(t)

Quiet == \A t \in Tid : Suspended(t)

Tick ==
  /\ now < horizon
  /\ Quiet
  /\ now' = now + 1
  /\ UNCHANGED <<engineVars, thr, stack, stopped, moveDone, configVars>>


\* -------------------------------------------------------- std::terminate
\* The process is ended: every thread stops where it is, no call goes on.

AbortThr == [t \in Tid |-> IF Live(t) THEN Exited(thr[t], "terminated") ELSE thr[t]]

AbortStack == [c \in Caller |-> <<>>]

AbortState == [e \in Engine |-> "aborted"]

\* An exception leaves stop() in caller c: it passes through start_internal()
\* and start() to the code that called them, and ends the process when it
\* reaches the destructor or a move operation, which are noexcept.
Escapes(c) ==
  \A k \in 1..Len(stack[c]) : stack[c][k].pc \notin {"dtor_end", "mv_end"}

\* -------------------------------------------------------------- stop()

\* History of thread r when stop_ is set on its engine: doomed, the signal
\* came while the loop was suspended or had not begun waiting; early, it came
\* before the first fire time; passed, it came after the loop's wait had timed
\* out with stop_ false and before the callback was called.
Signalled(r) ==
  [r EXCEPT !.doomed = @ \/ r.pc \in {"begin", "wait", "blocked"},
            !.passed = @ \/ r.pc = "invoke",
            !.early = @ \/ (r.ninv = 0 /\ (r.pc = "begin" \/
                               (r.pc \in {"wait", "blocked"} /\ now < r.future_time)))]

\* { std::unique_lock<mutex_type> lock(stop_cv_mutex_); stop_ = true; }
StopSet(c) ==
  LET e == Top(c).this IN
  /\ At(c, "stop_set")
  /\ stop_' = [stop_ EXCEPT ![e] = TRUE]
  /\ thr' = [t \in Tid |-> IF t \in LiveLoops(e) THEN Signalled(thr[t]) ELSE thr[t]]
  /\ stack' = Goto(c, "stop_notify")
  /\ UNCHANGED <<now, state, interval_, callback_, runner_,
                 stopped, moveDone, configVars>>

\* the threads suspended on the engine's stop_condition_
Waiting(e) == {t \in Tid : thr[t].this = e /\ thr[t].pc = "blocked" /\ ~thr[t].woken}

\* (mutant) stop() without the notify_one()
StopNoNotify(c) ==
  /\ At(c, "stop_notify")
  /\ stack' = Goto(c, "stop_joinable")
  /\ UNCHANGED <<now, engineVars, thr, stopped, moveDone, configVars>>

\* stop_condition_.notify_one(): wakes one suspended thread, if there is one
StopNotify(c) ==
  LET e == Top(c).this IN
  /\ At(c, "stop_notify")
  /\ IF Waiting(e) = {}
       THEN thr' = thr
       ELSE \E t \in Waiting(e) : thr' = SetThr(t, [thr[t] EXCEPT !.woken = TRUE])
  /\ stack' = Goto(c, "stop_joinable")
  /\ UNCHANGED <<now, engineVars, stopped, moveDone, configVars>>

\* (mutant) stop() that joins without asking joinable()
StopJoinableAlways(c) ==
  /\ At(c, "stop_joinable")
  /\ stack' = Goto(c, "stop_join")
  /\ UNCHANGED <<now, engineVars, thr, stopped, moveDone, configVars>>

\* if (runner_.joinable())
StopJoinable(c) ==
  /\ At(c, "stop_joinable")
  /\ stack' = Goto(c, IF is_running(Top(c).this) THEN "stop_join" ELSE "stop_reset")
  /\ UNCHANGED <<now, engineVars, thr, stopped, moveDone, configVars>>

\* (mutant) the thread is let go (detached) instead of waited for
JoinNoWait(e) == TRUE

\* The thread runner_.join() has to see finished before it returns.
JoinDone(e) == thr[runner_[e]].pc \in {"exited", "terminated"}

\* another caller thread is inside runner_.join() of the same engine
Contested(c) ==
  \E d \in Caller \ {c} : At(d, "stop_join") /\ Top(d).this = Top(c).this

\* What runner_.join() can do for caller c.  The handle is joinable and no
\* other thread touches it: join() returns once the thread has finished.
\* Two callers in join() of one handle, or a handle another caller has joined
\* since this caller's joinable() test, is a data race on runner_: join()
\* returns (with the thread finished) or throws std::system_error.
JoinOutcomes(c) ==
  LET e == Top(c).this IN
  (IF is_running(e) /\ JoinDone(e) THEN {"joined"} ELSE {})
    \cup (IF ~is_running(e) THEN {"joined", "error"} ELSE {})
    \cup (IF is_running(e) /\ Contested(c) THEN {"error"} ELSE {})

\* runner_.join(): blocks until the thread has finished; runner_ is then not
\* joinable
StopJoin(c) ==
  LET e == Top(c).this IN
  /\ At(c, "stop_join")
  /\ \E o \in JoinOutcomes(c) :
       IF o = "joined"
         THEN /\ runner_' = [runner_ EXCEPT ![e] = 0]
              /\ stack' = Goto(c, "stop_reset")
              /\ UNCHANGED <<state, thr>>
         ELSE IF Escapes(c)
           THEN /\ stack' = [stack EXCEPT ![c] = <<>>]
                /\ UNCHANGED <<state, runner_, thr>>
           ELSE /\ stack' = AbortStack
                /\ state' = AbortState
                /\ thr' = AbortThr
                /\ UNCHANGED runner_
  /\ UNCHANGED <<now, interval_, callback_, stop_,
                 stopped, moveDone, configVars>>

\* (mutant) stop() that returns with stop_ still set
StopResetKeep(c) ==
  /\ At(c, "stop_reset")
  /\ stopped' = [stopped EXCEPT ![Top(c).this] = TRUE]
  /\ stack' = Pop(c)
  /\ UNCHANGED <<now, engineVars, thr, moveDone, configVars>>

\* { std::unique_lock<mutex_type> lock(stop_cv_mutex_); stop_ = false; } and
\* stop() returns
StopReset(c) ==
  LET e == Top(c).this IN
  /\ At(c, "stop_reset")
  /\ stop_' = [stop_ EXCEPT ![e] = FALSE]
  /\ stopped' = [stopped EXCEPT ![e] = TRUE]
  /\ stack' = Pop(c)
  /\ UNCHANGED <<now, state, interval_, callback_, runner_, thr,
                 moveDone, configVars>>

\* ---------------------------------------------------- start_internal()

\* (mutant) start_internal() that spawns without stopping the running loop
SiCheckNoStop(c) ==
  /\ At(c, "si_check")
  /\ stack' = Goto(c, "si_spawn")
  /\ UNCHANGED <<now, engineVars, thr, stopped, moveDone, configVars>>

\* if (is_running()) stop();
SiCheck(c) ==
  LET e == Top(c).this IN
  /\ At(c, "si_check")
  /\ stack' = IF is_running(e)
                THEN [stack EXCEPT ![c] = <<Frame("stop_set", e, 0, FALSE),
                                            [Top(c) EXCEPT !.pc = "si_spawn", !.was = TRUE]>>
                                          \o Tail(stack[c])]
                ELSE Goto(c, "si_spawn")
  /\ UNCHANGED <<now, engineVars, thr, stopped, moveDone, configVars>>

NextTid == CHOOSE t \in Unborn : \A u \in Unborn : t <= u

\* What the move assignment to runner_ can do.  std::thread::operator=
\* calls std::terminate() when the handle assigned to is joinable; when
\* another caller thread made it joinable in a race with this assignment, the
\* assignment may also go through and lose the thread the handle named.
SpawnOutcomes(e) == IF is_running(e) THEN {"terminate", "assigned"} ELSE {"assigned"}

\* runner_ = std::thread([this]() { ... });
SiSpawn(c) ==
  LET e == Top(c).this IN
  /\ At(c, "si_spawn")
  /\ Unborn # {}
  /\ \E o \in SpawnOutcomes(e) :
       IF o = "assigned"
         THEN /\ thr' = SetThr(NextTid, [NoThread EXCEPT !.pc = "begin", !.this = e,
                                                         !.spawned_at = now,
                                                         !.restart = Top(c).was])
              /\ runner_' = [runner_ EXCEPT ![e] = NextTid]
              /\ stopped' = [stopped EXCEPT ![e] = FALSE]
              /\ stack' = Pop(c)
              /\ UNCHANGED state
         ELSE /\ thr' = AbortThr
              /\ stack' = AbortStack
              /\ state' = AbortState
              /\ UNCHANGED <<runner_, stopped>>
  /\ UNCHANGED <<now, interval_, callback_, stop_, moveDone, configVars>>

\* ------------------------------------------------------------ relocation

\* interval_ = other.interval_ (the assignment, or the member initialiser)
MvInterval(c) ==
  /\ At(c, "mv_interval")
  /\ interval_' = [interval_ EXCEPT ![Top(c).this] = interval_[Top(c).other]]
  /\ stack' = Goto(c, "mv_callback")
  /\ UNCHANGED <<now, state, callback_, stop_, runner_, thr,
                 stopped, moveDone, configVars>>

\* callback_ = std::move(other.callback_): the source is left moved-from
MvCallback(c) ==
  LET d == Top(c).this
      o == Top(c).other
  IN
  /\ At(c, "mv_callback")
  /\ callback_' = [callback_ EXCEPT ![d] = callback_[o],
                                    ![o] = [callback_[o] EXCEPT !.valid = FALSE]]
  /\ stack' = Goto(c, "mv_check")
  /\ UNCHANGED <<now, state, interval_, stop_, runner_, thr,
                 stopped, moveDone, configVars>>

\* if (other.is_running()) { other.stop(); start(); }
MvCheck(c) ==
  LET d == Top(c).this
      o == Top(c).other
  IN
  /\ At(c, "mv_check")
  /\ stack' = IF is_running(o)
                THEN [stack EXCEPT ![c] = <<Frame("stop_set", o, 0, FALSE),
                                            Frame("si_check", d, 0, FALSE)>>
                                          \o Tail(stack[c])]
                ELSE Pop(c)
  /\ UNCHANGED <<now, engineVars, thr, stopped, moveDone, configVars>>

\* the move constructor or operator= returns
MvEnd(c) ==
  /\ At(c, "mv_end")
  /\ moveDone' = [dst |-> Top(c).this, src |-> Top(c).other, was |-> Top(c).was]
  /\ stack' = Pop(c)
  /\ UNCHANGED <<now, engineVars, thr, stopped, configVars>>

\* ~periodic_function() { stop(); } has returned: the engine is gone
DtorEnd(c) ==
  /\ At(c, "dtor_end")
  /\ state' = [state EXCEPT ![Top(c).this] = "dead"]
  /\ stack' = Pop(c)
  /\ UNCHANGED <<now, interval_, callback_, stop_, runner_, thr,
                 stopped, moveDone, configVars>>

\* ----------------------------------------------------- the caller's calls

Idle(c) == stack[c] = <<>>

Call(c, frames) ==
  /\ Idle(c)
  /\ stack' = [stack EXCEPT ![c] = frames]
  /\ moveDone' = NoMove

\* periodic_function(Callback &&callback, const time_type &interval)
Construct(c, e) ==
  /\ Idle(c)
  /\ state[e] = "none"
  /\ state' = [state EXCEPT ![e] = "live"]
  /\ \E i \in Intervals : interval_' = [interval_ EXCEPT ![e] = i]
  /\ callback_' = [callback_ EXCEPT ![e] = [action |-> e, valid |-> TRUE]]
  /\ moveDone' = NoMove
  /\ UNCHANGED <<now, stop_, runner_, thr, stack, stopped, configVars>>

\* void start() { start_internal(); }
CallStart(c, e) ==
  /\ state[e] = "live"
  /\ Unborn # {}
  /\ Call(c, <<Frame("si_check", e, 0, FALSE)>>)
  /\ UNCHANGED <<now, engineVars, thr, stopped, configVars>>

\* void stop()
CallStop(c, e) ==
  /\ state[e] = "live"
  /\ Call(c, <<Frame("stop_set", e, 0, FALSE)>>)
  /\ UNCHANGED <<now, engineVars, thr, stopped, configVars>>

\* ~periodic_function() { stop(); }
CallDtor(c, e) ==
  /\ state[e] = "live"
  /\ Call(c, <<Frame("stop_set", e, 0, FALSE), Frame("dtor_end", e, 0, FALSE)>>)
  /\ UNCHANGED <<now, engineVars, thr, stopped, configVars>>

\* periodic_function(periodic_function &&other): d is the engine constructed
CallMoveCtor(c, d, o) ==
  /\ state[d] = "none" /\ state[o] = "live"
  /\ Unborn # {}
  /\ state' = [state EXCEPT ![d] = "live"]
  /\ Call(c, <<Frame("mv_interval", d, o, FALSE), Frame("mv_end", d, o, is_running(o))>>)
  /\ UNCHANGED <<now, interval_, callback_, stop_, runner_, thr,
                 stopped, configVars>>

\* operator=(periodic_function &&other) with this != &other
CallMoveAssign(c, d, o) ==
  /\ d # o
  /\ state[d] = "live" /\ state[o] = "live"
  /\ Unborn # {}
  /\ Call(c, <<Frame("mv_interval", d, o, FALSE), Frame("mv_end", d, o, is_running(o))>>)
  /\ UNCHANGED <<now, engineVars, thr, stopped, configVars>>

\* one statement of the start() or stop() in progress
StartStopStep(c) ==
  \/ StopSet(c)
  \/ StopNotify(c)
  \/ StopJoinable(c)
  \/ StopJoin(c)
  \/ StopReset(c)
  \/ SiCheck(c)
  \/ SiSpawn(c)

\* one statement of the call in progress
CallerStep(c) ==
  \/ StartStopStep(c)
  \/ DtorEnd(c)

\* one statement of the relocation in progress
MoveStep(c) ==
  \/ MvInterval(c)
  \/ MvCallback(c)
  \/ MvCheck(c)
  \/ MvEnd(c)

\* ------------------------------------------------------- specifications

\* The engine the program constructs first.
First == CHOOSE e \in Engine : \A f \in Engine : e <= f

\* The caller thread of a program that uses an engine from one thread.
Solo == {CHOOSE c \in Caller : \A d \in Caller : c <= d}

\* one caller thread and one engine: start(), stop() and the destructor in
\* any order, against the clock
Next ==
  \/ Tick
  \/ \E t \in Tid : LoopStep(t)
  \/ \E c \in Solo : CallerStep(c)
  \/ \E c \in Solo : CallStart(c, First)
  \/ \E c \in Solo : CallStop(c, First)
  \/ \E c \in Solo : CallDtor(c, First)

Spec == Init /\ [][Next]_vars

\* one caller thread and two engines: every operation of the class
NextMove ==
  \/ Tick
  \/ \E t \in Tid : LoopStep(t)
  \/ \E c \in Solo : CallerStep(c)
  \/ \E c \in Solo : MoveStep(c)
  \/ \E c \in Solo, e \in Engine : Construct(c, e)
  \/ \E c \in Solo, e \in Engine : CallStart(c, e)
  \/ \E c \in Solo, e \in Engine : CallStop(c, e)
  \/ \E c \in Solo, e \in Engine : CallDtor(c, e)
  \/ \E c \in Solo, d \in Engine, o \in Engine : CallMoveCtor(c, d, o)
  \/ \E c \in Solo, d \in Engine, o \in Engine : CallMoveAssign(c, d, o)

SpecMove == InitMove /\ [][NextMove]_vars

\* the same machine as Spec, with the scheduling the threads are given: a
\* loop thread or a caller thread that can take its next statement
\* eventually takes it.  Nothing makes the clock advance or a caller begin a
\* new call.
SpecLive ==
  /\ Init
  /\ [][Next]_vars
  /\ \A t \in Tid : WF_vars(LoopStep(t))
  /\ \A c \in Caller : WF_vars(CallerStep(c))

\* the cadence of intervals longer than a millisecond, under either missed
\* interval policy: one caller thread and one engine
InitCadence ==
  /\ InitBase(LongIntervals, Durations, {FALSE}, CadenceMaxTime, Policies)
  /\ sched = NoSchedule

SpecCadence == InitCadence /\ [][Next]_vars

\* two caller threads calling start() and stop() on one engine
InitRace == InitWith(Intervals, {0}, {FALSE}, RaceMaxTime)

NextRace ==
  \/ Tick
  \/ \E t \in Tid : LoopStep(t)
  \/ \E c \in Caller : StartStopStep(c)
  \/ \E c \in Caller : CallStart(c, First)
  \/ \E c \in Caller : CallStop(c, First)

SpecRace == InitRace /\ [][NextRace]_vars

\* MissedIntervalPolicy::schedule(callback_time, interval) applied to
\* arguments of its own
InitPolicy ==
  /\ InitBase(Intervals, {0}, {FALSE}, 0, {"schedule_next"})
  /\ sched \in [callback_time : 0..MaxElapsed, interval : 1..MaxPolicyInterval,
                append_time : {0}, done : {FALSE}]

\* append_time = schedule_next_missed_interval_policy::schedule(callback_time,
\* interval)
Schedule ==
  /\ ~sched.done
  /\ sched.interval > 0
  /\ sched' = [sched EXCEPT !.append_time =
                  schedule_next_missed_interval_policy(sched.callback_time,
                                                       sched.interval),
                            !.done = TRUE]
  /\ UNCHANGED <<now, engineVars, thr, stack, stopped, moveDone,
                 dur, throws, policy, horizon>>

NextPolicy == Schedule

SpecPolicy == InitPolicy /\ [][NextPolicy]_vars

\* ----------------------------------------------------------- properties

I(t) == interval_[thr[t].this]

\* the action's measured duration is zero
MeasuredZero == DurationCastMs(dur) = 0

\* thread t is inside an invocation of the action
InAction(t) == thr[t].pc = "incall" /\ thr[t].acting # 0

\* the destructor of engine e is running and has set the stop signal
Destroying(e) ==
  /\ stop_[e]
  /\ \E c \in Caller : \E k \in 1..Len(stack[c]) :
       stack[c][k].pc = "dtor_end" /\ stack[c][k].this = e

\* thread t takes the step that calls callback_()
Invokes(t) == thr[t].pc = "invoke" /\ thr'[t].pc = "incall"

\* thread t takes the step in which callback_() returns or throws
Returns(t) == thr[t].pc = "incall" /\ thr'[t].pc # "incall"

\* C1: once stop() has returned, and once the destructor has returned, no
\* loop of the engine is live (none is inside the action, none can begin an
\* invocation) until start() spawns one again.
C1_StopQuiesces ==
  \A e \in Engine : (stopped[e] \/ state[e] = "dead") => LiveLoops(e) = {}

\* a stop() that had a loop to wait for has returned, and the destructor has
C1_Witness ==
  /\ state[First] = "dead"
  /\ stopped[First]
  /\ \E t \in Tid : thr[t].pc = "exited" /\ thr[t].this = First

\* C2: with one caller thread running start(), stop(), repeated start(), both
\* moves and the destructor, an engine never has two live loops.
C2_AtMostOneLoop == \A e \in Engine : Cardinality(LiveLoops(e)) <= 1

\* a running engine was moved into an engine that was running itself
C2_Witness ==
  /\ moveDone.dst # 0 /\ moveDone.was
  /\ Cardinality(LiveLoops(moveDone.dst)) = 1
  /\ \E t \in Tid : thr[t].pc = "exited" /\ thr[t].this = moveDone.dst
  /\ \E t \in Tid : thr[t].pc = "exited" /\ thr[t].this = moveDone.src

\* C3 as stated: with an action of zero measured duration, for every interval
\* the n-th invocation of a loop begins at its start time + n * interval.
C3_Original ==
  \A t \in Tid : (InAction(t) /\ MeasuredZero)
                   => thr[t].callback_start = thr[t].thread_start + thr[t].ninv * I(t)

\* C3 amended: with an action of zero measured duration every target fire
\* time is the loop's start time plus a whole number of intervals (the n-th
\* is start + n * interval, never "now" + interval), and when the action also
\* returns within the interval the n-th invocation begins at that time.
C3_Anchored ==
  \A t \in Tid : MeasuredZero =>
    /\ thr[t].pc \in {"wait", "blocked", "invoke"}
         => thr[t].future_time = thr[t].thread_start + (thr[t].ninv + 1) * I(t)
    /\ thr[t].pc = "incall"
         => thr[t].future_time = thr[t].thread_start + thr[t].ninv * I(t)
    /\ (InAction(t) /\ dur <= I(t))
         => thr[t].callback_start = thr[t].thread_start + thr[t].ninv * I(t)

\* the second invocation of an action that takes time, measured as zero
C3_Witness ==
  \E t \in Tid : InAction(t) /\ MeasuredZero /\ dur > 0 /\ dur <= I(t)
                 /\ thr[t].ninv >= 2

\* C4: a loop that was suspended in its wait, or had not begun to wait, when
\* the stop signal was set leaves without invoking the action; a loop
\* signalled before its first fire time has invoked it zero times.
C4_NoInvokeAfterSignal ==
  \A t \in Tid :
    /\ thr[t].doomed => thr[t].pc \in {"begin", "wait", "blocked"}
    /\ thr[t].early => thr[t].ninv = 0

\* the signal arrived first, and the fire time after it: the loop is still
\* suspended, about to be woken
C4_Witness ==
  \E t \in Tid : /\ thr[t].doomed /\ thr[t].early
                 /\ thr[t].pc = "blocked"
                 /\ now >= thr[t].future_time

\* C5: a loop that is suspended in its wait (or about to wait) with the stop
\* signal set leaves, and the stop() that set the signal returns, without the
\* clock advancing; this covers the loop that comes back from an invocation
\* that was in flight.
C5_StopReturns ==
  \A t \in Tid :
    (thr[t].pc \in {"begin", "wait", "blocked"} /\ stop_[First] /\ thr[t].this = First)
      ~> (thr[t].pc = "exited" /\ stopped[First])

\* the signal is set while the loop is suspended before its fire time
C5_Witness ==
  \E t \in Tid : /\ thr[t].pc = "blocked" /\ ~thr[t].woken
                 /\ stop_[thr[t].this]
                 /\ now < thr[t].future_time

\* C6 as stated: once the destructor has set the stop signal, no invocation
\* of the action starts.
C6_Original ==
  [][\A t \in Tid : Invokes(t) => ~Destroying(thr[t].this)]_vars

\* C6 amended: once the destructor has set the stop signal, the only
\* invocation that can start is the one of a loop whose wait had already
\* timed out with the signal false when the signal was set; it is the last.
C6_OnlyPassed ==
  [][\A t \in Tid : (Invokes(t) /\ Destroying(thr[t].this)) => thr[t].passed]_vars

\* the destructor's stop() waits for an invocation that began after the signal
C6_Witness ==
  \E t \in Tid : /\ InAction(t) /\ Destroying(thr[t].this)
                 /\ thr[t].callback_start = now /\ ~thr[t].passed
                 /\ \E c \in Caller : At(c, "stop_join")

\* C7: when callback_() returns or throws, the loop goes on to its next
\* wait, with the fire time advanced by the policy's delay for the measured
\* duration: the same whether the action threw or not.  No loop thread ever
\* ends on a failure of the action.
C7_FailureSwallowed ==
  [][\A t \in Tid :
       /\ thr'[t].pc # "terminated"
       /\ Returns(t) =>
            /\ thr'[t].pc = "wait"
            /\ thr'[t].future_time = thr[t].future_time +
                 MissedIntervalPolicy(DurationCastMs(ActDur(t)), I(t))]_vars

\* a throwing action is being invoked for the third time
C7_Witness ==
  \E t \in Tid : InAction(t) /\ throws /\ thr[t].ninv >= 3

Running(t) == thr[t].pc \in {"wait", "blocked", "invoke", "incall"} /\ ~stop_[thr[t].this]

\* C9 as stated: with an action of duration d >= interval, the number of
\* invocations begun by N * interval + interval / 2 after the loop's start is
\* floor(N * interval / d).  (Read at an instant strictly between two fire
\* times: interval / 2 is at least one tick.)
C9_Original ==
  \A t \in Tid : \A N \in 1..MaxTime :
    (/\ Running(t) /\ Quiet /\ dur >= I(t)
     /\ I(t) \div 2 >= 1
     /\ now = thr[t].thread_start + N * I(t) + I(t) \div 2)
      => thr[t].ninv = (N * I(t)) \div dur

\* C9 amended: with an action of duration d >= interval the first invocation
\* begins one interval after the loop's start and every next one the moment
\* the one before returns, d after it began: by the time T >= interval after
\* the start, floor((T - interval) / d) + 1 invocations have begun.
C9_BackToBack ==
  \A t \in Tid : (Live(t) /\ dur >= I(t)) =>
    /\ InAction(t)
         => thr[t].callback_start = thr[t].thread_start + I(t) + (thr[t].ninv - 1) * dur
    /\ (Running(t) /\ Quiet /\ now >= thr[t].thread_start + I(t))
         => thr[t].ninv = (now - thr[t].thread_start - I(t)) \div dur + 1

\* the second invocation of an action that overruns the interval
C9_Witness ==
  \E t \in Tid : InAction(t) /\ dur >= I(t) /\ thr[t].ninv >= 2

\* C10 as stated: when a move has returned, the destination is running
\* exactly if the source was running before the move, and the source is not.
C10_Original ==
  moveDone.dst # 0 =>
    /\ is_running(moveDone.dst) = moveDone.was
    /\ ~is_running(moveDone.src)

\* a relocation from engine e is in progress in some caller thread
MovingFrom(e) ==
  \E c \in Caller : \E k \in 1..Len(stack[c]) :
    stack[c][k].pc = "mv_end" /\ stack[c][k].other = e

\* C11 as stated: while a running engine is relocated, its loop does not
\* invoke the action once the action has been moved to the destination.
C11_Original ==
  [][\A t \in Tid :
       (Invokes(t) /\ thr'[t].acting # 0 /\ MovingFrom(thr[t].this))
         => callback_[thr[t].this].valid]_vars

\* C12 as stated: with two caller threads in start() and stop() on one
\* engine, at most one loop of the engine is live, every live loop is the one
\* the thread handle names, and no two loops are inside the action at once.
C12_Original ==
  \A e \in Engine :
    /\ Cardinality(LiveLoops(e)) <= 1
    /\ \A t \in LiveLoops(e) : runner_[e] = t
    /\ Cardinality({t \in Tid : thr[t].this = e /\ InAction(t)}) <= 1

StopPcs == {"stop_set", "stop_notify", "stop_joinable", "stop_join", "stop_reset"}

\* C13: every statement of a stop() on an engine that has no thread leaves
\* the engine's members other than stop_ and every loop as they are, never
\* blocks in join() and never ends in an error; such a stop() begins with
\* stop_ false and returns with stop_ false, so any number of them in a row
\* leaves the state a single one leaves.
C13_IdleStopNoOp ==
  [][\A c \in Caller :
       (/\ stack[c] # <<>>
        /\ Top(c).pc \in StopPcs
        /\ ~is_running(Top(c).this)
        /\ stack'[c] # stack[c])
         => /\ UNCHANGED <<state, interval_, callback_, runner_, thr>>
            /\ stack'[c] # <<>> => Head(stack'[c]).pc # "stop_join"
            /\ Top(c).pc = "stop_set" => ~stop_[Top(c).this]
            /\ Top(c).pc = "stop_reset"
                 => (~stop_'[Top(c).this] /\ stack'[c] = Tail(stack[c]))
            /\ Top(c).pc # "stop_reset" => Len(stack'[c]) = Len(stack[c])]_vars

\* the second stop() in a row on an engine that was never started is about
\* to return
C13_Witness ==
  \E c \in Caller : /\ At(c, "stop_reset") /\ Len(stack[c]) = 1
                     /\ stopped[Top(c).this]
                     /\ ~is_running(Top(c).this)
                     /\ \A t \in Tid : thr[t].pc = "unborn"

\* a stop() on engine e is past setting the stop signal
InStop(e) ==
  \E c \in Caller : \E k \in 1..Len(stack[c]) :
    /\ stack[c][k].this = e
    /\ stack[c][k].pc \in StopPcs \ {"stop_set"}

\* C14: once stop() has returned (and until the next spawn) is_running() is
\* false, and the stop signal is false whenever no stop() is in progress, so
\* no loop finds a stale one; a loop that start() spawned is the one
\* is_running() sees, and its first invocation of the action begins one
\* interval after the spawn.
C14_StopThenStart ==
  \A e \in Engine :
    /\ stopped[e] => ~is_running(e)
    /\ stop_[e] => InStop(e)
    /\ \A t \in LiveLoops(e) : runner_[e] = t
    /\ \A t \in LiveLoops(e) :
         (InAction(t) /\ thr[t].ninv = 1)
           => thr[t].callback_start = thr[t].spawned_at + I(t)

\* the loop of a start() that followed a stop() of an earlier loop invokes
\* the action for the first time
C14_Witness ==
  \E t \in Tid : /\ InAction(t) /\ thr[t].ninv = 1 /\ ~thr[t].restart
                  /\ thr[t].spawned_at > 0
                  /\ \E u \in Tid : u # t /\ thr[u].pc = "exited"

\* C15 as stated: under the default policy, with an action of measured
\* duration d, 0 < d < interval, the n-th invocation of a loop begins at its
\* start time + n * interval.
C15_Original ==
  \A t \in Tid :
    (/\ InAction(t) /\ policy = "schedule_next"
     /\ 0 < DurationCastMs(dur) /\ DurationCastMs(dur) < I(t))
      => thr[t].callback_start = thr[t].thread_start + thr[t].ninv * I(t)

\* C16 as stated: under the default policy, when an invocation of measured
\* duration >= interval returns, the next target fire time is not earlier
\* than the moment of the return and lies a whole number of intervals after
\* the loop's start.
C16_Original ==
  [][\A t \in Tid :
       (/\ Returns(t) /\ thr'[t].pc = "wait" /\ policy = "schedule_next"
        /\ DurationCastMs(ActDur(t)) >= I(t))
         => /\ thr'[t].future_time >= now
            /\ (thr'[t].future_time - thr[t].thread_start) % I(t) = 0]_vars

\* C17: schedule(elapsed, interval) is interval - elapsed when elapsed <
\* interval, elapsed mod interval when elapsed >= interval and the remainder
\* is not zero, interval when elapsed >= interval and the remainder is zero;
\* it is strictly positive and at most interval.
C17_ScheduleNext ==
  sched.done =>
    LET elapsed == sched.callback_time
        interval == sched.interval
        r == sched.append_time
    IN /\ elapsed < interval => r = interval - elapsed
       /\ (elapsed >= interval /\ elapsed % interval # 0) => r = elapsed % interval
       /\ (elapsed >= interval /\ elapsed % interval = 0) => r = interval
       /\ r > 0
       /\ r <= interval

\* the policy has been applied to a duration equal to the interval
C17_Witness ==
  /\ sched.done
  /\ sched.callback_time = sched.interval
  /\ sched.append_time = sched.interval

\* every caller thread that is in a call is in a stop() called on its own
PlainStops ==
  \A c \in Caller : stack[c] # <<>> => (Len(stack[c]) = 1 /\ Top(c).pc \in StopPcs)

\* C18 as stated: when caller threads are in stop() on one engine at once,
\* a join() that ends is the join of a handle that was joinable and whose
\* loop has left, it leaves the handle not joinable (one caller joins the
\* thread), and the stop() goes on to reset the signal and return.
C18_Original ==
  [][\A c \in Caller :
       (PlainStops /\ At(c, "stop_join") /\ stack'[c] # stack[c])
         => /\ is_running(Top(c).this)
            /\ LiveLoops(Top(c).this) = {}
            /\ At(c, "stop_reset")']_vars

\* C19 as stated: under the immediate policy, a loop whose invocations all
\* finish within the interval begins each of them no earlier than one
\* interval after the one before: the n-th no earlier than n intervals after
\* the loop's start.
C19_Original ==
  \A t \in Tid :
    (InAction(t) /\ policy = "invoke_immediately" /\ dur < I(t))
      => thr[t].callback_start >= thr[t].thread_start + thr[t].ninv * I(t)

\* C20 as stated: a caller thread writes interval_ and callback_ of an engine
\* only while no loop of that engine is live.
C20_Original ==
  [][\A c \in Caller :
       ((At(c, "mv_interval") \/ At(c, "mv_callback")) /\ stack'[c] # stack[c])
         => LiveLoops(Top(c).this) = {}]_vars

====
